---- MODULE Spec2Model ----
(***************************************************************************)
(* Retrieval layer of the 24Hour-AI repository: the tenant-scoped document *)
(* indexer, the semantic retriever (semanticSearch) and the Pinecone       *)
(* vector index they share.  The index is one shared object partitioned    *)
(* into namespaces; every call is an async function whose awaits are the   *)
(* points at which other calls may interleave.  The model router (route)   *)
(* and the completion request it issues, getOpenAICompletion, follow.      *)
(***************************************************************************)
EXTENDS Integers, Sequences, FiniteSets, TLC

(***************************************************************************)
(* Bounds of the model.                                                    *)
(***************************************************************************)
MaxCalls == 2
MaxTopK == 1
MaxOps == 3
MaxAuditOps == 4
MaxFaultOps == 2

(***************************************************************************)
(* Input universes.                                                        *)
(***************************************************************************)
None == "none"
NoTopK == 0
Tenants == {"first-user-1", "tenant2"}
InputTenants == Tenants \cup {""}
DocIds == {"A", "B"}
InputDocIds == DocIds \cup {""}
Texts == {"x", "y"}
InputTexts == Texts \cup {""}
CallIds == 1..MaxCalls
TopKs == 1..MaxTopK

\* a topK below 1 passed explicitly (0 stands for the omitted argument)
InvalidTopKs == {-1}

\* semanticSearch(query, topK = 5)
DefaultTopK == 5

\* .namespace("first-user-1")
SearchNamespace == "first-user-1"

\* getOpenAICompletion(message, model = 'gpt-4o')
DefaultModel == "gpt-4o"
NoModel == None

\* the models that have a registered provider, and a hint that has none
RegisteredModels == {DefaultModel, "gpt-4o-mini"}
ModelHints == RegisteredModels \cup {"unknown-model-x"}

\* retrieved context handed to the router: the ids of the matches, in order
Contexts == {<< >>, <<"A">>, <<"A", "B">>, <<"B", "A">>}

\* output_text of a completion that succeeded
OutputText == "output_text"

(***************************************************************************)
(* Embedding provider: text -> vector.  Vectors are one-dimensional.       *)
(***************************************************************************)
EmbeddingOf == [t \in Texts |-> IF t = "x" THEN 1 ELSE 3]
Vectors == {EmbeddingOf[t] : t \in Texts}
MaxScore == 10

getTextEmbedding(text) == EmbeddingOf[text]

Abs(n) == IF n < 0 THEN 0 - n ELSE n

\* similarity of a stored vector to the query vector (higher = nearer)
Score(values, vector) == MaxScore - Abs(values - vector)

(***************************************************************************)
(* Dimension.  The index is created with the dimension of the vectors to   *)
(* be stored in it (createIndex({dimension: 8, ...})); the vectors of      *)
(* Vectors stand for vectors of that dimension, OtherVector for a vector   *)
(* of another dimension, as an embedding model other than the one the      *)
(* index was created for returns it.                                       *)
(***************************************************************************)
IndexDimension == 8
OtherVector == 100

Dimension(values) ==
    IF values = OtherVector THEN IndexDimension - 1 ELSE IndexDimension

\* an index that takes vectors of any dimension
AcceptsAny(values) == TRUE

\* the index takes a vector in an upsert or a query
Accepts(values) == Dimension(values) = IndexDimension

(***************************************************************************)
(* Namespace resolver of the indexing pipeline.                            *)
(***************************************************************************)
InvalidTenantError == "InvalidTenantError"

resolve(tenantId) == IF tenantId = "" THEN InvalidTenantError ELSE tenantId

Namespaces == {resolve(t) : t \in Tenants} \cup {SearchNamespace}

(***************************************************************************)
(* The vector index: namespace -> set of records {id, values}.             *)
(***************************************************************************)
Records == [id : DocIds, values : Vectors]

IdRank(id) == IF id = "A" THEN 1 ELSE IF id = "B" THEN 2 ELSE 3

\* upsert that inserts without replacing the record of the same id
upsertAppend(idx, ns, id, values) ==
    [idx EXCEPT ![ns] = @ \cup {[id |-> id, values |-> values]}]

\* upsert that replaces the content of the namespace by the one record
upsertReplaceAll(idx, ns, id, values) ==
    [idx EXCEPT ![ns] = {[id |-> id, values |-> values]}]

\* upsert that keeps the record already stored under the id
upsertKeepFirst(idx, ns, id, values) ==
    IF \E r \in idx[ns] : r.id = id THEN idx
    ELSE [idx EXCEPT ![ns] = @ \cup {[id |-> id, values |-> values]}]

upsert(idx, ns, id, values) ==
    [idx EXCEPT ![ns] = {r \in @ : r.id # id} \cup {[id |-> id, values |-> values]}]

deleteOne(idx, ns, id) == [idx EXCEPT ![ns] = {r \in @ : r.id # id}]

\* deleteAll that empties every namespace of the index
deleteAllEverywhere(idx, ns) == [n \in DOMAIN idx |-> {}]

deleteAll(idx, ns) == [idx EXCEPT ![ns] = {}]

\* r is ranked before o in a query for vector
Before(r, o, vector) ==
    \/ Score(r.values, vector) > Score(o.values, vector)
    \/ /\ Score(r.values, vector) = Score(o.values, vector)
       /\ \/ IdRank(r.id) < IdRank(o.id)
          \/ r.id = o.id /\ r.values <= o.values

RECURSIVE Ranked(_, _)
Ranked(S, vector) ==
    IF S = {} THEN << >>
    ELSE LET best == CHOOSE r \in S : \A o \in S : r = o \/ Before(r, o, vector)
         IN  <<[id |-> best.id, score |-> Score(best.values, vector)]>>
                 \o Ranked(S \ {best}, vector)

Min(a, b) == IF a < b THEN a ELSE b

query(idx, ns, vector, topK) ==
    LET all == Ranked(idx[ns], vector)
    IN  SubSeq(all, 1, Min(topK, Len(all)))


(***************************************************************************)
(* State.                                                                  *)
(*   index    the shared Pinecone index                                    *)
(*   calls    the in-flight async calls, one slot per concurrent caller    *)
(*   hist     per tenant and docId, what the caller last did to it:        *)
(*            "never" indexed, the content last upserted, "deleted" by     *)
(*            deleteDocument, or "wiped" by deleteAllForTenant             *)
(*   cleared  per tenant, deleteAllForTenant committed and nothing was     *)
(*            upserted for the tenant since                                *)
(*   prior    per tenant and docId, the content that the last upsert       *)
(*            overwrote (None when it created the record)                  *)
(*   nOps     number of calls started (bounded by MaxOps, MaxAuditOps,     *)
(*            MaxFaultOps)                                                 *)
(*   ni       used only by SpecNI: a second execution of the program, run  *)
(*            next to the first one (see the end of the module)            *)
(***************************************************************************)
VARIABLES index, calls, hist, cleared, prior, nOps, ni

vars == <<index, calls, hist, cleared, prior, nOps, ni>>

NoNI == [subject |-> None, twin |-> << >>, obs |-> << >>]

NoSnap == [foreign |-> {}, cleared |-> FALSE, deleted |-> {}, own |-> {}]

\* no request was passed to openai.responses.create
NoRequest == [model |-> None, input |-> << >>]

Idle ==
    [op |-> "idle", pc |-> "idle", tenant |-> None, docId |-> None,
     text |-> None, topK |-> 0, ns |-> None, vec |-> 0, status |-> None,
     matches |-> << >>, issued |-> NoSnap, snap |-> NoSnap,
     model |-> None, context |-> << >>, request |-> NoRequest,
     completion |-> "", rejected |-> FALSE, canceled |-> FALSE]

Init ==
    /\ index = [ns \in Namespaces |-> {}]
    /\ calls = [c \in CallIds |-> Idle]
    /\ hist = [t \in Tenants |-> [d \in DocIds |-> "never"]]
    /\ cleared = [t \in Tenants |-> FALSE]
    /\ prior = [t \in Tenants |-> [d \in DocIds |-> None]]
    /\ nOps = 0
    /\ ni = NoNI

Live(h) == h \in Texts

\* what the caller of tenantId knows about its own and foreign documents;
\* noted when a search is issued and again when its query is evaluated
Snapshot(tenantId) ==
    IF tenantId \in Tenants
    THEN [foreign |-> {d \in DocIds : /\ hist[tenantId][d] = "never"
                                      /\ \E a \in Tenants \ {tenantId} :
                                            hist[a][d] # "never"},
          cleared |-> cleared[tenantId],
          deleted |-> {d \in DocIds : hist[tenantId][d] = "deleted"},
          own     |-> {[id |-> d, text |-> hist[tenantId][d],
                        prior |-> prior[tenantId][d]] :
                          d \in {e \in DocIds : Live(hist[tenantId][e])}}]
    ELSE [foreign |-> {d \in DocIds : \E a \in Tenants : hist[a][d] # "never"},
          cleared |-> FALSE, deleted |-> {}, own |-> {}]

\* a caller takes the first free slot
FreeSlot(c) ==
    /\ calls[c].op = "idle"
    /\ \A b \in CallIds : b < c => calls[b].op # "idle"

\* the index request issued by semanticSearch for an embedded query
searchMatches(idx, vector, topK) == query(idx, SearchNamespace, vector, topK)

\* the index request issued by indexDocument for an embedded document
indexUpsert(idx, tenantId, docId, vector) ==
    upsert(idx, resolve(tenantId), docId, vector)

Finish(c, st) == [calls EXCEPT ![c].pc = "return", ![c].status = st]

(***************************************************************************)
(* semanticSearch(query, topK = 5): embed the query, then query the        *)
(* namespace "first-user-1" of the index and return res.matches.           *)
(* The function has no tenant parameter: tenantId is the tenant on whose   *)
(* behalf the caller searches, and no step below reads it.                 *)
(***************************************************************************)
StartSearch(c, tenantId, q, k) ==
    /\ FreeSlot(c)
    /\ nOps' = nOps + 1
    /\ calls' = [calls EXCEPT ![c] =
                    [Idle EXCEPT !.op = "search", !.pc = "embed",
                                 !.tenant = tenantId, !.text = q,
                                 !.issued = Snapshot(tenantId),
                                 !.topK = IF k = NoTopK THEN DefaultTopK ELSE k]]
    /\ UNCHANGED <<index, hist, cleared, prior, ni>>

\* getTextEmbedding(...) called without await: the call goes on before the
\* embedding is there
EmbedStepUnawaited(c) ==
    /\ calls[c].pc = "embed"
    /\ calls[c].text \in Texts
    /\ calls' = [calls EXCEPT ![c].pc = IF calls[c].op = "search" THEN "query"
                                        ELSE "upsert"]
    /\ UNCHANGED <<index, hist, cleared, prior, nOps, ni>>

\* await getTextEmbedding(...) resolves
EmbedStep(c) ==
    /\ calls[c].pc = "embed"
    /\ calls[c].text \in Texts
    /\ calls' = [calls EXCEPT ![c].vec = getTextEmbedding(calls[c].text),
                              ![c].pc = IF calls[c].op = "search" THEN "query"
                                        ELSE "upsert"]
    /\ UNCHANGED <<index, hist, cleared, prior, nOps, ni>>

Reverse(seq) == [i \in 1..Len(seq) |-> seq[Len(seq) + 1 - i]]

\* the call c once its query has resolved with matches
Resolved(c, matches) ==
    [calls EXCEPT ![c].pc = "return", ![c].status = "ok",
                  ![c].ns = SearchNamespace,
                  ![c].matches = matches,
                  ![c].snap = Snapshot(calls[c].tenant)]

\* semanticSearch that drops its topK argument and always asks for the default
QueryStepDefaultTopK(c) ==
    /\ calls[c].pc = "query"
    /\ calls' = Resolved(c, searchMatches(index, calls[c].vec, DefaultTopK))
    /\ UNCHANGED <<index, hist, cleared, prior, nOps, ni>>

\* semanticSearch that returns res.matches in reverse order
QueryStepReversed(c) ==
    /\ calls[c].pc = "query"
    /\ calls' = Resolved(c, Reverse(searchMatches(index, calls[c].vec,
                                                  calls[c].topK)))
    /\ UNCHANGED <<index, hist, cleared, prior, nOps, ni>>

\* await pinecone.namespace("first-user-1").query({topK, vector}) resolves
QueryStep(c) ==
    /\ calls[c].pc = "query"
    /\ Accepts(calls[c].vec)
    /\ calls' = Resolved(c, searchMatches(index, calls[c].vec, calls[c].topK))
    /\ UNCHANGED <<index, hist, cleared, prior, nOps, ni>>

\* the external services a call may be awaiting
Awaiting == {"embed", "query", "upsert", "delete", "complete"}

\* a rejected await caught and turned into an empty result
FailSwallowed(c) ==
    /\ calls[c].pc \in Awaiting
    /\ calls' = [Finish(c, "ok") EXCEPT ![c].rejected = TRUE]
    /\ UNCHANGED <<index, hist, cleared, prior, nOps, ni>>

\* a rejected embedding ignored: the call goes on to its index request
FailThenUpsert(c) ==
    /\ calls[c].pc \in Awaiting
    /\ calls' = [calls EXCEPT ![c].rejected = TRUE,
                              ![c].pc = IF calls[c].pc = "embed"
                                           /\ calls[c].op = "index"
                                        THEN "upsert" ELSE "return",
                              ![c].status = "ProviderError"]
    /\ UNCHANGED <<index, hist, cleared, prior, nOps, ni>>

\* a rejected external call issued again by the function
FailRetry(c) ==
    /\ calls[c].pc \in Awaiting
    /\ ~calls[c].rejected
    /\ calls' = [calls EXCEPT ![c].rejected = TRUE]
    /\ UNCHANGED <<index, hist, cleared, prior, nOps, ni>>

\* an awaited external call rejects; no step of the functions catches the
\* exception, so it reaches the caller
Fail(c) ==
    /\ calls[c].pc \in Awaiting
    /\ calls' = [Finish(c, "ProviderError") EXCEPT ![c].rejected = TRUE]
    /\ UNCHANGED <<index, hist, cleared, prior, nOps, ni>>

\* await getTextEmbedding(...) resolves with a vector of another dimension
EmbedOtherDimension(c) ==
    /\ calls[c].pc = "embed"
    /\ calls[c].text \in Texts
    /\ calls' = [calls EXCEPT ![c].vec = OtherVector,
                              ![c].pc = IF calls[c].op = "search" THEN "query"
                                        ELSE "upsert"]
    /\ UNCHANGED <<index, hist, cleared, prior, nOps, ni>>

\* the index rejects the upsert or query of a vector it does not take
RejectDimension(c) ==
    /\ calls[c].pc \in {"query", "upsert"}
    /\ ~Accepts(calls[c].vec)
    /\ Fail(c)

\* the caller has observed the outcome
Return(c) ==
    /\ calls[c].pc = "return"
    /\ calls' = [calls EXCEPT ![c] = Idle]
    /\ UNCHANGED <<index, hist, cleared, prior, nOps, ni>>

(***************************************************************************)
(* indexDocument(tenantId, docId, content): validate, resolve, embed,      *)
(* upsert {id: docId, values: vector} into the tenant's namespace.         *)
(* The function lives in lib/functions/pinecone/upsertVectors; the steps   *)
(* are those of the Document Indexer contract.                             *)
(***************************************************************************)
\* indexDocument that embeds whatever content and docId it is given
StartIndexUnvalidated(c, tenantId, docId, content) ==
    /\ FreeSlot(c)
    /\ nOps' = nOps + 1
    /\ calls' = [calls EXCEPT ![c] =
                    [Idle EXCEPT !.op = "index", !.tenant = tenantId,
                                 !.docId = docId, !.text = content,
                                 !.pc = "embed"]]
    /\ UNCHANGED <<index, hist, cleared, prior, ni>>

StartIndex(c, tenantId, docId, content) ==
    /\ FreeSlot(c)
    /\ nOps' = nOps + 1
    /\ LET call == [Idle EXCEPT !.op = "index", !.tenant = tenantId,
                                !.docId = docId, !.text = content]
       IN  calls' = [calls EXCEPT ![c] =
              IF content = "" \/ docId = ""
              THEN [call EXCEPT !.pc = "return", !.status = "ValidationError"]
              ELSE IF resolve(tenantId) = InvalidTenantError
              THEN [call EXCEPT !.pc = "return", !.status = InvalidTenantError]
              ELSE [call EXCEPT !.pc = "embed", !.ns = resolve(tenantId)]]
    /\ UNCHANGED <<index, hist, cleared, prior, ni>>

UpsertCall(c) ==
    /\ calls[c].pc = "upsert"
    /\ Accepts(calls[c].vec)
    /\ index' = indexUpsert(index, calls[c].tenant, calls[c].docId, calls[c].vec)
    /\ calls' = Finish(c, "ok")
    /\ UNCHANGED <<nOps, ni>>

UpsertStep(c) ==
    /\ UpsertCall(c)
    /\ UNCHANGED <<hist, cleared, prior>>

\* the same step, with the history of the tenant's documents kept
UpsertAudited(c) ==
    /\ UpsertCall(c)
    /\ hist' = [hist EXCEPT ![calls[c].tenant][calls[c].docId] = calls[c].text]
    /\ cleared' = [cleared EXCEPT ![calls[c].tenant] = FALSE]
    /\ prior' = [prior EXCEPT ![calls[c].tenant][calls[c].docId] =
                    IF Live(hist[calls[c].tenant][calls[c].docId])
                    THEN hist[calls[c].tenant][calls[c].docId] ELSE None]

\* a cancellation that lets an upsert out before the embedding is there
CancelPartial(c) ==
    /\ calls[c].op = "index"
    /\ calls[c].pc \in {"embed", "upsert"}
    /\ calls' = [Finish(c, "CanceledError") EXCEPT ![c].canceled = TRUE]
    /\ \/ index' = index
       \/ index' = indexUpsert(index, calls[c].tenant, calls[c].docId,
                               calls[c].vec)
    /\ UNCHANGED <<hist, cleared, prior, nOps, ni>>

\* the caller's cancellation signal fires while indexDocument is in flight:
\* the call ends with CanceledError; an upsert request that was already
\* due either was not issued or is carried out whole
Cancel(c) ==
    /\ calls[c].op = "index"
    /\ calls[c].pc \in {"embed", "upsert"}
    /\ calls' = [Finish(c, "CanceledError") EXCEPT ![c].canceled = TRUE]
    /\ \/ index' = index
       \/ /\ calls[c].pc = "upsert"
          /\ index' = indexUpsert(index, calls[c].tenant, calls[c].docId,
                                  calls[c].vec)
    /\ UNCHANGED <<hist, cleared, prior, nOps, ni>>

(***************************************************************************)
(* deleteDocument(tenantId, docId) and deleteAllForTenant(tenantId).       *)
(***************************************************************************)
StartDelete(c, tenantId, docId) ==
    /\ FreeSlot(c)
    /\ nOps' = nOps + 1
    /\ LET call == [Idle EXCEPT !.op = "deleteDocument", !.tenant = tenantId,
                                !.docId = docId]
       IN  calls' = [calls EXCEPT ![c] =
              IF docId = ""
              THEN [call EXCEPT !.pc = "return", !.status = "ValidationError"]
              ELSE IF resolve(tenantId) = InvalidTenantError
              THEN [call EXCEPT !.pc = "return", !.status = InvalidTenantError]
              ELSE [call EXCEPT !.pc = "delete", !.ns = resolve(tenantId)]]
    /\ UNCHANGED <<index, hist, cleared, prior, ni>>

StartDeleteAll(c, tenantId) ==
    /\ FreeSlot(c)
    /\ nOps' = nOps + 1
    /\ LET call == [Idle EXCEPT !.op = "deleteAllForTenant", !.tenant = tenantId]
       IN  calls' = [calls EXCEPT ![c] =
              IF resolve(tenantId) = InvalidTenantError
              THEN [call EXCEPT !.pc = "return", !.status = InvalidTenantError]
              ELSE [call EXCEPT !.pc = "delete", !.ns = resolve(tenantId)]]
    /\ UNCHANGED <<index, hist, cleared, prior, ni>>

DeleteCall(c) ==
    /\ calls[c].pc = "delete"
    /\ index' = IF calls[c].op = "deleteDocument"
                THEN deleteOne(index, calls[c].ns, calls[c].docId)
                ELSE deleteAll(index, calls[c].ns)
    /\ calls' = Finish(c, "ok")
    /\ UNCHANGED <<nOps, ni>>

DeleteStep(c) ==
    /\ DeleteCall(c)
    /\ UNCHANGED <<hist, cleared, prior>>

\* the same step, with the history of the tenant's documents kept
DeleteAudited(c) ==
    /\ DeleteCall(c)
    /\ LET t == calls[c].tenant
           d == calls[c].docId
       IN  IF calls[c].op = "deleteDocument"
           THEN /\ hist' = [hist EXCEPT ![t][d] = IF Live(@) THEN "deleted" ELSE @]
                /\ UNCHANGED cleared
           ELSE /\ hist' = [hist EXCEPT ![t] =
                              [e \in DocIds |-> IF Live(hist[t][e]) THEN "wiped"
                                                ELSE hist[t][e]]]
                /\ cleared' = [cleared EXCEPT ![t] = TRUE]
    /\ UNCHANGED prior

(***************************************************************************)
(* route(request) with request = {message, model?, context?}: pick the     *)
(* model, compose the prompt and issue the completion request.  The pick   *)
(* and the composition are those of the Model Router contract              *)
(* (lib/functions/routeToModel); the request is issued by                  *)
(* getOpenAICompletion(message, model = 'gpt-4o'), which passes            *)
(* {model, input: message} to openai.responses.create and returns          *)
(* output_text.                                                            *)
(***************************************************************************)
\* a prompt with the message ahead of the context
composeMessageFirst(context, message) == <<message>> \o context

\* the outbound prompt: the context, in the order given, then the message
composePrompt(context, message) == context \o <<message>>

\* getOpenAICompletion that ignores its model argument
getOpenAICompletionDefaultOnly(message, model) ==
    [model |-> DefaultModel, input |-> message]

\* the request getOpenAICompletion passes to openai.responses.create
getOpenAICompletion(message, model) ==
    [model |-> IF model = NoModel THEN DefaultModel ELSE model,
     input |-> message]

\* route that hands every model hint to the completion provider
StartRoutePassThrough(c, message, model, context) ==
    /\ FreeSlot(c)
    /\ nOps' = nOps + 1
    /\ calls' = [calls EXCEPT ![c] =
                    [Idle EXCEPT !.op = "route", !.text = message,
                                 !.model = model, !.context = context,
                                 !.pc = "complete",
                                 !.request = getOpenAICompletion(
                                     composePrompt(context, message), model)]]
    /\ UNCHANGED <<index, hist, cleared, prior, ni>>

StartRoute(c, message, model, context) ==
    /\ FreeSlot(c)
    /\ nOps' = nOps + 1
    /\ LET call == [Idle EXCEPT !.op = "route", !.text = message,
                                !.model = model, !.context = context]
       IN  calls' = [calls EXCEPT ![c] =
              IF model # NoModel /\ model \notin RegisteredModels
              THEN [call EXCEPT !.pc = "return",
                                !.status = "UnsupportedModelError"]
              ELSE [call EXCEPT !.pc = "complete",
                                !.request = getOpenAICompletion(
                                    composePrompt(context, message), model)]]
    /\ UNCHANGED <<index, hist, cleared, prior, ni>>

\* await openai.responses.create(...) resolves; output_text is returned
CompleteStep(c) ==
    /\ calls[c].pc = "complete"
    /\ calls' = [Finish(c, "ok") EXCEPT ![c].completion = OutputText]
    /\ UNCHANGED <<index, hist, cleared, prior, nOps, ni>>

(***************************************************************************)
(* Caller inputs.  A call with an empty (invalid) argument is tried with   *)
(* the other arguments fixed, every combination of empty arguments         *)
(* included.                                                               *)
(***************************************************************************)
Canonical(args) ==
    \/ "" \notin {args.tenant, args.docId, args.text}
    \/ /\ args.tenant \in {"", "tenant2"}
       /\ args.docId \in {"", "A"}
       /\ args.text \in {"", "x"}

IndexInputs ==
    {a \in [tenant : InputTenants, docId : InputDocIds, text : InputTexts] :
        Canonical(a)}

DeleteInputs ==
    {a \in [tenant : InputTenants, docId : InputDocIds, text : {"x"}] :
        Canonical(a)}

ValidInputs == {a \in IndexInputs : "" \notin {a.tenant, a.docId, a.text}}

Next ==
    \/ \E c \in CallIds, t \in Tenants, q \in Texts,
          k \in TopKs \cup {NoTopK} : nOps < MaxOps /\ StartSearch(c, t, q, k)
    \/ \E c \in CallIds, a \in ValidInputs :
          nOps < MaxOps /\ StartIndex(c, a.tenant, a.docId, a.text)
    \/ \E c \in CallIds, t \in Tenants, d \in DocIds :
          nOps < MaxOps /\ StartDelete(c, t, d)
    \/ \E c \in CallIds, t \in Tenants :
          nOps < MaxOps /\ StartDeleteAll(c, t)
    \/ \E c \in CallIds : EmbedStep(c)
    \/ \E c \in CallIds : QueryStep(c)
    \/ \E c \in CallIds : UpsertStep(c)
    \/ \E c \in CallIds : DeleteStep(c)
    \/ \E c \in CallIds : Return(c)

Spec == Init /\ [][Next]_vars

(***************************************************************************)
(* The same calls, with the history variables hist, cleared and prior      *)
(* maintained.                                                             *)
(***************************************************************************)
NextAudit ==
    \/ \E c \in CallIds, t \in Tenants, q \in Texts,
          k \in TopKs \cup {NoTopK} : nOps < MaxAuditOps /\ StartSearch(c, t, q, k)
    \/ \E c \in CallIds, a \in ValidInputs :
          nOps < MaxAuditOps /\ StartIndex(c, a.tenant, a.docId, a.text)
    \/ \E c \in CallIds, t \in Tenants, d \in DocIds :
          nOps < MaxAuditOps /\ StartDelete(c, t, d)
    \/ \E c \in CallIds, t \in Tenants :
          nOps < MaxAuditOps /\ StartDeleteAll(c, t)
    \/ \E c \in CallIds : EmbedStep(c)
    \/ \E c \in CallIds : QueryStep(c)
    \/ \E c \in CallIds : UpsertAudited(c)
    \/ \E c \in CallIds : DeleteAudited(c)
    \/ \E c \in CallIds : Return(c)

SpecAudit == Init /\ [][NextAudit]_vars

(***************************************************************************)
(* The calls with failing external services and invalid arguments; the     *)
(* searches leave topK to its default or pass an invalid one.              *)
(***************************************************************************)
Faults ==
    \/ \E c \in CallIds : Fail(c)
    \/ \E c \in CallIds, q \in Texts :
          nOps < MaxFaultOps /\ StartSearch(c, "", q, NoTopK)
    \/ \E c \in CallIds, t \in Tenants, q \in Texts, k \in InvalidTopKs :
          nOps < MaxFaultOps /\ StartSearch(c, t, q, k)
    \/ \E c \in CallIds, a \in IndexInputs \ ValidInputs :
          nOps < MaxFaultOps /\ StartIndex(c, a.tenant, a.docId, a.text)
    \/ \E c \in CallIds, a \in DeleteInputs \ ValidInputs :
          nOps < MaxFaultOps /\ StartDelete(c, a.tenant, a.docId)
    \/ \E c \in CallIds : nOps < MaxFaultOps /\ StartDeleteAll(c, "")

NextFaults ==
    \/ \E c \in CallIds, t \in Tenants, q \in Texts :
          nOps < MaxFaultOps /\ StartSearch(c, t, q, NoTopK)
    \/ \E c \in CallIds, a \in ValidInputs :
          nOps < MaxFaultOps /\ StartIndex(c, a.tenant, a.docId, a.text)
    \/ \E c \in CallIds, t \in Tenants, d \in DocIds :
          nOps < MaxFaultOps /\ StartDelete(c, t, d)
    \/ \E c \in CallIds, t \in Tenants :
          nOps < MaxFaultOps /\ StartDeleteAll(c, t)
    \/ \E c \in CallIds, m \in Texts, h \in ModelHints \cup {NoModel} :
          nOps < MaxFaultOps /\ StartRoute(c, m, h, << >>)
    \/ \E c \in CallIds : EmbedStep(c)
    \/ \E c \in CallIds : QueryStep(c)
    \/ \E c \in CallIds : UpsertStep(c)
    \/ \E c \in CallIds : DeleteStep(c)
    \/ \E c \in CallIds : CompleteStep(c)
    \/ \E c \in CallIds : Return(c)
    \/ Faults

SpecFaults == Init /\ [][NextFaults]_vars

(***************************************************************************)
(* The model router alone: route calls in flight, no failing provider.     *)
(***************************************************************************)
NextRouter ==
    \/ \E c \in CallIds, m \in Texts, h \in ModelHints \cup {NoModel},
          x \in Contexts : nOps < MaxOps /\ StartRoute(c, m, h, x)
    \/ \E c \in CallIds : CompleteStep(c)
    \/ \E c \in CallIds : Return(c)

SpecRouter == Init /\ [][NextRouter]_vars

(***************************************************************************)
(* The write path: indexDocument, deleteDocument and deleteAllForTenant    *)
(* calls in flight together with searches that leave topK to its default.  *)
(***************************************************************************)
NextWrites ==
    \/ \E c \in CallIds, t \in Tenants, q \in Texts :
          nOps < MaxOps /\ StartSearch(c, t, q, NoTopK)
    \/ \E c \in CallIds, a \in ValidInputs :
          nOps < MaxOps /\ StartIndex(c, a.tenant, a.docId, a.text)
    \/ \E c \in CallIds, t \in Tenants, d \in DocIds :
          nOps < MaxOps /\ StartDelete(c, t, d)
    \/ \E c \in CallIds, t \in Tenants :
          nOps < MaxOps /\ StartDeleteAll(c, t)
    \/ \E c \in CallIds : EmbedStep(c)
    \/ \E c \in CallIds : QueryStep(c)
    \/ \E c \in CallIds : UpsertStep(c)
    \/ \E c \in CallIds : DeleteStep(c)
    \/ \E c \in CallIds : Return(c)

SpecWrites == Init /\ [][NextWrites]_vars

(***************************************************************************)
(* indexDocument calls under cancellation by their callers.                *)
(***************************************************************************)
NextCancel ==
    \/ \E c \in CallIds, a \in ValidInputs :
          nOps < MaxOps /\ StartIndex(c, a.tenant, a.docId, a.text)
    \/ \E c \in CallIds : EmbedStep(c)
    \/ \E c \in CallIds : UpsertStep(c)
    \/ \E c \in CallIds : Cancel(c)
    \/ \E c \in CallIds : Return(c)

SpecCancel == Init /\ [][NextCancel]_vars

(***************************************************************************)
(* Searches and indexDocument calls with an embedding provider that may    *)
(* return vectors of another dimension than the index's.                   *)
(***************************************************************************)
NextDimension ==
    \/ \E c \in CallIds, t \in Tenants, q \in Texts :
          nOps < MaxOps /\ StartSearch(c, t, q, NoTopK)
    \/ \E c \in CallIds, a \in ValidInputs :
          nOps < MaxOps /\ StartIndex(c, a.tenant, a.docId, a.text)
    \/ \E c \in CallIds : EmbedStep(c)
    \/ \E c \in CallIds : EmbedOtherDimension(c)
    \/ \E c \in CallIds : QueryStep(c)
    \/ \E c \in CallIds : UpsertStep(c)
    \/ \E c \in CallIds : RejectDimension(c)
    \/ \E c \in CallIds : Return(c)

SpecDimension == Init /\ [][NextDimension]_vars

(***************************************************************************)
(* Two executions side by side.  Both perform the same calls for the       *)
(* tenant ni.subject; the calls of the other tenants are performed in one  *)
(* execution only, interleaved in any order.  index is the vector index of *)
(* the first execution, ni.twin the vector index of the second.  Each call *)
(* reaches the index in one request, which is the step modelled here.      *)
(***************************************************************************)
InitNI ==
    /\ index = [ns \in Namespaces |-> {}]
    /\ calls = [c \in CallIds |-> Idle]
    /\ hist = [t \in Tenants |-> [d \in DocIds |-> "never"]]
    /\ cleared = [t \in Tenants |-> FALSE]
    /\ prior = [t \in Tenants |-> [d \in DocIds |-> None]]
    /\ nOps = 0
    /\ \E a \in Tenants :
          ni = [subject |-> a, twin |-> [ns \in Namespaces |-> {}], obs |-> << >>]

mainVars == <<calls, hist, cleared, prior, nOps>>

\* indexDocument(subject, d, x) in both executions
IndexBoth(d, x) ==
    /\ index' = indexUpsert(index, ni.subject, d, getTextEmbedding(x))
    /\ ni' = [ni EXCEPT !.twin = indexUpsert(@, ni.subject, d, getTextEmbedding(x))]
    /\ UNCHANGED mainVars

\* deleteDocument(subject, d) in both executions
DeleteBoth(d) ==
    /\ index' = deleteOne(index, resolve(ni.subject), d)
    /\ ni' = [ni EXCEPT !.twin = deleteOne(@, resolve(ni.subject), d)]
    /\ UNCHANGED mainVars

\* deleteAllForTenant(subject) in both executions
DeleteAllBoth ==
    /\ index' = deleteAll(index, resolve(ni.subject))
    /\ ni' = [ni EXCEPT !.twin = deleteAll(@, resolve(ni.subject))]
    /\ UNCHANGED mainVars

\* indexDocument(t, d, x) of another tenant, first execution only
IndexOtherFirst(t, d, x) ==
    /\ t # ni.subject
    /\ index' = indexUpsert(index, t, d, getTextEmbedding(x))
    /\ UNCHANGED <<mainVars, ni>>

\* indexDocument(t, d, x) of another tenant, second execution only
IndexOtherSecond(t, d, x) ==
    /\ t # ni.subject
    /\ ni' = [ni EXCEPT !.twin = indexUpsert(@, t, d, getTextEmbedding(x))]
    /\ UNCHANGED <<mainVars, index>>

\* semanticSearch(q, k) for the subject in both executions
SearchBoth(q, k) ==
    /\ ni' = [ni EXCEPT !.obs =
                <<searchMatches(index, getTextEmbedding(q), k),
                  searchMatches(ni.twin, getTextEmbedding(q), k)>>]
    /\ UNCHANGED <<mainVars, index>>

NextNI ==
    \/ \E d \in DocIds, x \in Texts : IndexBoth(d, x)
    \/ \E d \in DocIds : DeleteBoth(d)
    \/ DeleteAllBoth
    \/ \E t \in Tenants, d \in DocIds, x \in Texts : IndexOtherFirst(t, d, x)
    \/ \E t \in Tenants, d \in DocIds, x \in Texts : IndexOtherSecond(t, d, x)
    \/ \E q \in Texts, k \in TopKs \cup {DefaultTopK} : SearchBoth(q, k)

SpecNI == InitNI /\ [][NextNI]_vars

(***************************************************************************)
(* Properties.                                                             *)
(***************************************************************************)
\* a search call whose result the caller is looking at
Searched(c) ==
    /\ calls[c].op = "search"
    /\ calls[c].pc = "return"
    /\ calls[c].status = "ok"

\* an indexDocument call that has completed
Indexed(c) ==
    /\ calls[c].op = "index"
    /\ calls[c].pc = "return"
    /\ calls[c].status = "ok"

MatchIds(c) == {calls[c].matches[i].id : i \in 1..Len(calls[c].matches)}

MatchSet(seq) == {seq[i] : i \in 1..Len(seq)}

\* C1: a search issued for tenant B never returns the id of a document
\* that was indexed only under another tenant A.
TenantIsolation ==
    \A c \in CallIds :
        Searched(c) =>
           MatchIds(c) \cap calls[c].snap.foreign \cap calls[c].issued.foreign = {}

\* C2: two executions that agree on the calls of tenant A and differ only
\* in the indexDocument calls of other tenants give every search of A the
\* same sequence of matches.
NonInterference ==
    ni.obs # << >> => ni.obs[1] = ni.obs[2]

\* C3: the vector-index request of every index and query call targets the
\* namespace resolved from the tenant identifier the call was made for.
TargetsResolvedNamespace ==
    \A c \in CallIds :
        calls[c].ns # None => calls[c].ns = resolve(calls[c].tenant)

\* C4: tenant -> namespace is injective: two calls made for distinct
\* tenants never address the same namespace of the index.
ResolverInjective ==
    \A c1, c2 \in CallIds :
        /\ calls[c1].ns # None
        /\ calls[c2].ns # None
        /\ calls[c1].tenant # calls[c2].tenant
        => calls[c1].ns # calls[c2].ns

\* C5: a namespace holds at most one vector per docId, and the upsert of
\* an indexDocument call leaves exactly the call's vector under its docId
\* (replacing the record that was there) and the other records as they were.
UpsertIdempotent ==
    [][/\ \A ns \in Namespaces : \A r1, r2 \in index'[ns] :
             r1.id = r2.id => r1 = r2
       /\ \A c \in CallIds :
             calls[c].pc = "upsert" /\ calls'[c].status = "ok" =>
                LET ns == calls[c].ns
                    d  == calls[c].docId
                IN  /\ {r \in index'[ns] : r.id = d}
                          = {[id |-> d, values |-> getTextEmbedding(calls[c].text)]}
                    /\ {r \in index'[ns] : r.id # d}
                          = {r \in index[ns] : r.id # d}]_vars

\* a docId of some tenant was indexed twice with different content, by two
\* calls that have both completed, and the namespace holds one record of it
ReindexedOnce ==
    \E c1, c2 \in CallIds :
        /\ Indexed(c1) /\ Indexed(c2)
        /\ calls[c1].tenant = calls[c2].tenant
        /\ calls[c1].docId = calls[c2].docId
        /\ calls[c1].text # calls[c2].text
        /\ Cardinality({r \in index[calls[c1].ns] : r.id = calls[c1].docId}) = 1

\* C6: once docId d of tenant T was re-indexed with new content c2, a
\* search for T issued after that (and evaluated before T writes d again)
\* is evaluated against the vector of c2: d is among the
\* matches exactly when the vector of c2 ranks it among the topK nearest
\* of T's documents, and then with the score of that vector.
ReindexVisible ==
    \A c \in CallIds :
        Searched(c) =>
           LET own == [ns \in Namespaces |->
                         {[id |-> r.id, values |-> getTextEmbedding(r.text)] :
                             r \in calls[c].snap.own}]
               expected == MatchSet(query(own, SearchNamespace, calls[c].vec,
                                          calls[c].topK))
           IN  \A r \in calls[c].snap.own \cap calls[c].issued.own :
                  r.prior \notin {None, r.text} =>
                     \A m \in [id : {r.id}, score : 0..MaxScore] :
                        m \in MatchSet(calls[c].matches) <=> m \in expected

\* C7: after deleteAllForTenant(A), with no later indexDocument for A,
\* every search under A returns an empty sequence.
ClearedSearchEmpty ==
    \A c \in CallIds :
        Searched(c) /\ calls[c].issued.cleared /\ calls[c].snap.cleared
           => calls[c].matches = << >>

\* C8: after indexDocument(T, d, c) and deleteDocument(T, d), with no later
\* re-index of d, no search under T returns a match whose id is d.
DeletedNotReturned ==
    \A c \in CallIds :
        Searched(c) =>
           MatchIds(c) \cap calls[c].issued.deleted \cap calls[c].snap.deleted = {}

\* C9: search returns at most topK matches.
AtMostTopK ==
    \A c \in CallIds :
        Searched(c) => Len(calls[c].matches) <= calls[c].topK

\* a search returned topK matches out of a namespace that holds more
TruncatedToTopK ==
    \E c \in CallIds :
        /\ Searched(c)
        /\ Len(calls[c].matches) = calls[c].topK
        /\ Cardinality(index[SearchNamespace]) > calls[c].topK

\* C10: the matches returned by search are sorted by non-increasing score.
SortedByScore ==
    \A c \in CallIds :
        Searched(c) =>
           \A i \in 1..(Len(calls[c].matches) - 1) :
              calls[c].matches[i].score >= calls[c].matches[i + 1].score

\* a search returned two matches of different scores
TwoScoresReturned ==
    \E c \in CallIds :
        /\ Searched(c)
        /\ Len(calls[c].matches) >= 2
        /\ calls[c].matches[1].score # calls[c].matches[2].score

\* the ids of the documents a snapshot lists as the tenant's own
OwnIds(snapshot) == {r.id : r \in snapshot.own}

\* C11: when the namespace of the tenant holds at least topK vectors, a
\* search for that tenant returns exactly topK matches, all of them ids of
\* that namespace.
ExactlyTopKOwn ==
    \A c \in CallIds :
        /\ Searched(c)
        /\ Cardinality(calls[c].issued.own) >= calls[c].topK
        /\ Cardinality(calls[c].snap.own) >= calls[c].topK
        => /\ Len(calls[c].matches) = calls[c].topK
           /\ MatchIds(c) \subseteq OwnIds(calls[c].snap)

\* C12: a search for a tenant whose namespace holds no vectors returns an
\* empty sequence and no error.
EmptyNamespaceEmptyResult ==
    \A c \in CallIds :
        /\ calls[c].op = "search"
        /\ calls[c].pc = "return"
        /\ calls[c].issued.own = {}
        /\ calls[c].snap.own = {}
        => /\ calls[c].status = "ok"
           /\ calls[c].matches = << >>

\* C13: a search with topK < 1 is rejected with ValidationError; it never
\* proceeds to the embedding or to the index with that topK.
TopKValidated ==
    \A c \in CallIds :
        calls[c].op = "search" /\ calls[c].topK < 1
           => /\ calls[c].pc = "return"
              /\ calls[c].status = "ValidationError"

\* C14: indexDocument with empty content or empty docId ends with
\* ValidationError without having embedded anything or addressed a
\* namespace, and no step of the call changes the index.
ValidationBeforeEmbedding ==
    [][\A c \in CallIds :
          calls'[c].op = "index" /\ (calls'[c].docId = "" \/ calls'[c].text = "")
             => /\ calls'[c].pc = "return"
                /\ calls'[c].status = "ValidationError"
                /\ calls'[c].vec = 0
                /\ calls'[c].ns = None
                /\ calls'[c] # calls[c] => index' = index]_vars

\* indexDocument with empty content returned ValidationError for a tenant
\* whose namespace holds a document
EmptyContentRejected ==
    \E c \in CallIds :
        /\ calls[c].op = "index"
        /\ calls[c].text = ""
        /\ calls[c].tenant \in Tenants
        /\ calls[c].status = "ValidationError"
        /\ index[resolve(calls[c].tenant)] # {}

\* C15: resolve fails with InvalidTenantError for the empty tenant
\* identifier, and no call made for the empty tenant reaches the embedding
\* or the vector index: it ends with an error and has addressed no namespace.
EmptyTenantRejected ==
    /\ resolve("") = InvalidTenantError
    /\ \A c \in CallIds :
          calls[c].tenant = ""
             => /\ calls[c].pc = "return"
                /\ calls[c].status \in {InvalidTenantError, "ValidationError"}
                /\ calls[c].ns = None

\* a route call whose completion request has been issued
Routed(c) ==
    /\ calls[c].op = "route"
    /\ calls[c].request # NoRequest

\* C16: route with a model hint that names no registered provider fails
\* with UnsupportedModelError and issues no completion request.
UnknownModelRejected ==
    \A c \in CallIds :
        /\ calls[c].op = "route"
        /\ calls[c].model # NoModel
        /\ calls[c].model \notin RegisteredModels
        => /\ calls[c].pc = "return"
           /\ calls[c].status = "UnsupportedModelError"
           /\ calls[c].request = NoRequest
           /\ calls[c].completion = ""

\* route was called with the hint "unknown-model-x" while another route
\* call had its request issued
UnknownModelTried ==
    \E c1, c2 \in CallIds :
        /\ calls[c1].op = "route"
        /\ calls[c1].model = "unknown-model-x"
        /\ calls[c1].pc = "return"
        /\ Routed(c2)

\* C17: a route call with a recognized model hint issues its request with
\* exactly that model; a route call with no hint issues it with the
\* default model.
ModelSelection ==
    \A c \in CallIds :
        calls[c].op = "route" =>
           /\ calls[c].model \in RegisteredModels
                 => calls[c].request.model = calls[c].model
           /\ calls[c].model = NoModel
                 => calls[c].request.model = DefaultModel

\* one request was issued for a hint other than the default model, another
\* for a call without a hint
HintAndDefaultRouted ==
    \E c1, c2 \in CallIds :
        /\ Routed(c1) /\ Routed(c2)
        /\ calls[c1].model \in RegisteredModels \ {DefaultModel}
        /\ calls[c2].model = NoModel

ErrorsNotSwallowed ==
    \A c \in CallIds :
        calls[c].rejected
           => /\ calls[c].pc = "return"
              /\ calls[c].status = "ProviderError"

\* the index query of a search and the completion request of a route call
\* were both rejected
QueryAndCompletionRejected ==
    \E c1, c2 \in CallIds :
        /\ calls[c1].op = "search" /\ calls[c1].rejected
        /\ calls[c1].vec # 0
        /\ calls[c2].op = "route" /\ calls[c2].rejected

\* C20: when the embedding call of indexDocument is rejected, the call
\* ends with ProviderError, the index is left as it was, and the call
\* takes no further step but handing the error to its caller.
EmbedFailureNoUpsert ==
    [][\A c \in CallIds :
          /\ /\ calls[c].op = "index"
             /\ calls[c].pc = "embed"
             /\ calls'[c].rejected
             => /\ index' = index
                /\ calls'[c].pc = "return"
                /\ calls'[c].status = "ProviderError"
          /\ /\ calls[c].op = "index"
             /\ calls[c].rejected
             /\ calls'[c] # calls[c]
             => /\ index' = index
                /\ calls'[c] = Idle]_vars

\* the embedding of an indexDocument call was rejected while the namespace
\* of its tenant held a document
EmbedFailedIndexKept ==
    \E c \in CallIds :
        /\ calls[c].op = "index"
        /\ calls[c].rejected
        /\ calls[c].vec = 0
        /\ calls[c].status = "ProviderError"
        /\ index[calls[c].ns] # {}

\* C21: a cancelled indexDocument ends with CanceledError, and the step
\* that cancels it leaves the index as it was or with the complete vector
\* of the call's content upserted under its docId (the latter only once
\* the embedding was there).
CancelAtomic ==
    [][\A c \in CallIds :
          /\ calls'[c].canceled
                => /\ calls'[c].pc = "return"
                   /\ calls'[c].status = "CanceledError"
          /\ calls'[c].canceled /\ ~calls[c].canceled
                => \/ index' = index
                   \/ /\ calls[c].pc = "upsert"
                      /\ index' = upsert(index, calls[c].ns, calls[c].docId,
                                         getTextEmbedding(calls[c].text))]_vars

\* two indexDocument calls were cancelled at their upsert stage: one left
\* nothing in the index, the other its complete vector
CanceledBothWays ==
    \E c1, c2 \in CallIds :
        /\ calls[c1].canceled /\ calls[c2].canceled
        /\ calls[c1].vec # 0 /\ calls[c2].vec # 0
        /\ calls[c1].ns # calls[c2].ns
        /\ index[calls[c1].ns] = {}
        /\ index[calls[c2].ns]
              = {[id |-> calls[c2].docId,
                  values |-> getTextEmbedding(calls[c2].text)]}

UpsertAfterEmbedding ==
    [][\A c \in CallIds :
          /\ calls'[c].op = "index" /\ calls'[c].pc = "upsert"
                => calls'[c].vec = getTextEmbedding(calls'[c].text)
          /\ /\ calls[c].op = "index" \/ calls'[c].op = "index"
             /\ calls'[c] # calls[c]
             /\ calls[c].pc # "upsert"
             => index' = index
          /\ calls'[c].op = "index" /\ calls'[c].status = "ok"
                /\ calls[c].status # "ok"
                => calls[c].pc = "upsert"]_vars

\* of two concurrent indexDocument calls, the one started second has
\* upserted while the one started first still awaits its embedding
UpsertOvertakes ==
    /\ nOps = 2
    /\ calls[1].op = "index" /\ calls[1].pc = "embed"
    /\ Indexed(2)
    /\ index[calls[2].ns] # {}

\* C24: when an indexDocument call commits its upsert after another call
\* for the same tenant and docId has committed its own, both calls are
\* complete and the namespace holds exactly one vector for the docId, that
\* of the call that committed last.
LastWriteWins ==
    [][\A c1, c2 \in CallIds :
          /\ c1 # c2
          /\ Indexed(c1)
          /\ calls[c2].op = "index" /\ calls[c2].pc = "upsert"
          /\ calls'[c2].status = "ok"
          /\ calls[c1].tenant = calls[c2].tenant
          /\ calls[c1].docId = calls[c2].docId
          => {r \in index'[calls[c2].ns] : r.id = calls[c2].docId}
                = {[id |-> calls[c2].docId,
                    values |-> getTextEmbedding(calls[c2].text)]}]_vars

\* two concurrent indexDocument calls for the same tenant and docId with
\* different content have completed; the one started first committed last
\* and its vector is the one stored
FirstStartedWonLast ==
    /\ nOps = 2
    /\ Indexed(1) /\ Indexed(2)
    /\ calls[1].tenant = calls[2].tenant
    /\ calls[1].docId = calls[2].docId
    /\ calls[1].text # calls[2].text
    /\ {r \in index[calls[1].ns] : r.id = calls[1].docId}
          = {[id |-> calls[1].docId, values |-> getTextEmbedding(calls[1].text)]}

\* how far a call has come: pc names the external call it has issued and
\* is awaiting
Stage(pc) ==
    IF pc = "idle" THEN 0
    ELSE IF pc \in {"embed", "complete", "delete"} THEN 1
    ELSE IF pc \in {"query", "upsert"} THEN 2
    ELSE 3

\* C25: every step of an invocation takes it forward to a later external
\* call or to its end, so that no external call is issued twice, and an
\* external call that was rejected ends the invocation with the error.
NoRetries ==
    [][\A c \in CallIds :
          /\ calls'[c] # calls[c]
                => \/ calls'[c] = Idle
                   \/ Stage(calls'[c].pc) > Stage(calls[c].pc)
          /\ calls'[c].rejected /\ ~calls[c].rejected
                => /\ calls'[c].pc = "return"
                   /\ calls'[c].status = "ProviderError"
                   /\ index' = index]_vars

\* the embedding request of a search and the upsert of an indexDocument
\* call were rejected, each ending its call
FailedOnceEach ==
    \E c1, c2 \in CallIds :
        /\ calls[c1].op = "search" /\ calls[c1].rejected /\ calls[c1].vec = 0
        /\ calls[c2].op = "index" /\ calls[c2].rejected /\ calls[c2].vec # 0

\* the ids stored in a set of records
Ids(records) == {r.id : r \in records}

\* C26: an id leaves a namespace only in the step in which a
\* deleteDocument or deleteAllForTenant call for the tenant of that
\* namespace is carried out; the steps of indexDocument remove no id from
\* any namespace and the steps of a search leave the index unchanged.
NoImplicitDeletion ==
    [][/\ \A ns \in Namespaces :
             ~(Ids(index[ns]) \subseteq Ids(index'[ns]))
                => \E c \in CallIds :
                      /\ calls[c].op \in {"deleteDocument", "deleteAllForTenant"}
                      /\ calls[c].pc = "delete"
                      /\ calls'[c].pc = "return"
                      /\ resolve(calls[c].tenant) = ns
       /\ \A c \in CallIds :
             /\ calls'[c] # calls[c]
             /\ calls[c].op = "search" \/ calls'[c].op = "search"
             => index' = index
       /\ \A c \in CallIds :
             /\ calls'[c] # calls[c]
             /\ calls[c].op = "index" \/ calls'[c].op = "index"
             => \A ns \in Namespaces :
                   Ids(index[ns]) \subseteq Ids(index'[ns])]_vars

\* two documents were indexed into one namespace and a search has returned
\* matches; both documents are still stored
NothingRemoved ==
    /\ nOps = 3
    /\ \E c1, c2 \in CallIds :
          /\ Indexed(c1)
          /\ Searched(c2) /\ calls[c2].matches # << >>
          /\ Ids(index[calls[c1].ns]) = DocIds

\* C27: the one step that carries out deleteAllForTenant(A) leaves A's
\* namespace empty, the step that carries out deleteDocument(A, d) leaves
\* A's namespace without d and with its other records as they were, and
\* both leave every other namespace unchanged.
DeleteFrame ==
    [][\A c \in CallIds :
          /\ calls[c].pc = "delete"
          /\ calls'[c].pc = "return"
          /\ calls'[c].status = "ok"
          => LET ns == resolve(calls[c].tenant)
             IN  /\ \A o \in Namespaces \ {ns} : index'[o] = index[o]
                 /\ calls[c].op = "deleteAllForTenant" => index'[ns] = {}
                 /\ calls[c].op = "deleteDocument"
                       => index'[ns] = {r \in index[ns] : r.id # calls[c].docId}]_vars

\* deleteAllForTenant has emptied the namespace of a tenant that had
\* indexed a document, while the namespace of the other tenant still holds
\* its own
OffboardedOneTenant ==
    /\ nOps = 3
    /\ \E c1, c2 \in CallIds :
          /\ Indexed(c1)
          /\ calls[c2].op = "deleteAllForTenant" /\ calls[c2].status = "ok"
          /\ calls[c1].tenant = calls[c2].tenant
          /\ index[calls[c1].ns] = {}
          /\ \E o \in Namespaces \ {calls[c1].ns} : index[o] # {}

====
